---- MODULE Spec2Model ----
(***************************************************************************)
(* Model of script.js: the mock user directory (registeredUsers), the      *)
(* duplicate-email query, and the signup wizard's click/submit handlers.   *)
(*                                                                         *)
(* Emails are sequences of UTF-16 code units (integers), as JavaScript      *)
(* strings are, so that toLowerCase is computed on them.  The other fields *)
(* are plain strings: the code only tests them for emptiness and           *)
(* (passwords) strict equality.                                            *)
(***************************************************************************)
EXTENDS Integers, Sequences, FiniteSets, TLC

VARIABLES
    registeredUsers,     \* the mock database array (script.js:5)
    currentSignupStep,   \* index of the active signup step (script.js:108)
    regEmail,            \* value of input #reg-email
    regUsername,         \* value of input #reg-username
    regPassword,         \* value of input #reg-password
    regConfirmPassword,  \* value of input #reg-confirm-password
    event,               \* the DOM event whose handler ran last
    feedback,            \* what that handler displayed (alert / showMessage)
    queried,             \* the isEmailAlreadyRegistered calls that handler made
    currentAppointmentStep, \* index of the active appointment step (script.js:205)
    apptInputs,          \* per appointment step: the values of its required inputs
    taskQueue,           \* events the browser has queued and not yet dispatched
    submitPc,            \* position inside a running signup submit handler
    messages,            \* per form: its .submission-message elements, in DOM order
    timers,              \* pending setTimeout callbacks of showMessage
    created,             \* number of message elements created so far
    lockstep             \* history: how the clicks on the two wizards pair up

signupVars == <<registeredUsers, currentSignupStep, regEmail, regUsername,
                regPassword, regConfirmPassword, event, feedback, queried>>

loopVars == <<taskQueue, submitPc>>

appointmentVars == <<currentAppointmentStep, apptInputs>>

messageVars == <<messages, timers, created>>

vars == <<registeredUsers, currentSignupStep, regEmail, regUsername,
          regPassword, regConfirmPassword, event, feedback, queried,
          currentAppointmentStep, apptInputs, taskQueue, submitPc,
          messages, timers, created, lockstep>>

fieldVars == <<regEmail, regUsername, regPassword, regConfirmPassword>>

-----------------------------------------------------------------------------
(* Strings and String.prototype.toLowerCase                                *)
(*                                                                         *)
(* A string is the sequence of its UTF-16 code units, integers 0..65535.   *)
(* toLowerCase works on the code points of the string: every code point is *)
(* replaced by its lower case in the Unicode default case conversion       *)
(* (locale-independent), and the result is encoded in UTF-16 again.        *)

(* A lead surrogate followed by a trail surrogate is one code point; any   *)
(* other code unit, a lone surrogate included, is a code point by itself.  *)
IsLeadSurrogate(u) == u >= 55296 /\ u <= 56319

IsTrailSurrogate(u) == u >= 56320 /\ u <= 57343

SurrogatePairAt(s, i) ==
    i >= 1 /\ i < Len(s) /\ IsLeadSurrogate(s[i]) /\ IsTrailSurrogate(s[i + 1])

(* The code point that starts at index i of s.                             *)
CodePointAt(s, i) ==
    IF SurrogatePairAt(s, i)
    THEN 65536 + (s[i] - 55296) * 1024 + (s[i + 1] - 56320)
    ELSE s[i]

(* The code point that ends at index i of s.                               *)
CodePointBefore(s, i) ==
    IF SurrogatePairAt(s, i - 1) THEN CodePointAt(s, i - 1) ELSE s[i]

(* The UTF-16 encoding of a code point.                                    *)
CodeUnits(cp) ==
    IF cp < 65536 THEN <<cp>>
    ELSE <<55296 + ((cp - 65536) \div 1024), 56320 + ((cp - 65536) % 1024)>>

(* The one-to-one lower case mappings of the Unicode Character Database    *)
(* (Unicode 17.0), in code point order.  <<lo, hi, stride, delta>> maps    *)
(* the code points lo, lo + stride, ..., hi each to itself plus delta.     *)
LowerRules == <<
    <<65,90,1,32>>, <<192,214,1,32>>, <<216,222,1,32>>, <<256,302,2,1>>,
    <<306,310,2,1>>, <<313,327,2,1>>, <<330,374,2,1>>, <<376,376,1,-121>>,
    <<377,381,2,1>>, <<385,385,1,210>>, <<386,388,2,1>>, <<390,390,1,206>>,
    <<391,391,1,1>>, <<393,394,1,205>>, <<395,395,1,1>>, <<398,398,1,79>>,
    <<399,399,1,202>>, <<400,400,1,203>>, <<401,401,1,1>>, <<403,403,1,205>>,
    <<404,404,1,207>>, <<406,406,1,211>>, <<407,407,1,209>>, <<408,408,1,1>>,
    <<412,412,1,211>>, <<413,413,1,213>>, <<415,415,1,214>>, <<416,420,2,1>>,
    <<422,422,1,218>>, <<423,423,1,1>>, <<425,425,1,218>>, <<428,428,1,1>>,
    <<430,430,1,218>>, <<431,431,1,1>>, <<433,434,1,217>>, <<435,437,2,1>>,
    <<439,439,1,219>>, <<440,440,1,1>>, <<444,444,1,1>>, <<452,452,1,2>>,
    <<453,453,1,1>>, <<455,455,1,2>>, <<456,456,1,1>>, <<458,458,1,2>>,
    <<459,475,2,1>>, <<478,494,2,1>>, <<497,497,1,2>>, <<498,500,2,1>>,
    <<502,502,1,-97>>, <<503,503,1,-56>>, <<504,542,2,1>>,
    <<544,544,1,-130>>, <<546,562,2,1>>, <<570,570,1,10795>>,
    <<571,571,1,1>>, <<573,573,1,-163>>, <<574,574,1,10792>>,
    <<577,577,1,1>>, <<579,579,1,-195>>, <<580,580,1,69>>, <<581,581,1,71>>,
    <<582,590,2,1>>, <<880,882,2,1>>, <<886,886,1,1>>, <<895,895,1,116>>,
    <<902,902,1,38>>, <<904,906,1,37>>, <<908,908,1,64>>, <<910,911,1,63>>,
    <<913,929,1,32>>, <<931,939,1,32>>, <<975,975,1,8>>, <<984,1006,2,1>>,
    <<1012,1012,1,-60>>, <<1015,1015,1,1>>, <<1017,1017,1,-7>>,
    <<1018,1018,1,1>>, <<1021,1023,1,-130>>, <<1024,1039,1,80>>,
    <<1040,1071,1,32>>, <<1120,1152,2,1>>, <<1162,1214,2,1>>,
    <<1216,1216,1,15>>, <<1217,1229,2,1>>, <<1232,1326,2,1>>,
    <<1329,1366,1,48>>, <<4256,4293,1,7264>>, <<4295,4295,1,7264>>,
    <<4301,4301,1,7264>>, <<5024,5103,1,38864>>, <<5104,5109,1,8>>,
    <<7305,7305,1,1>>, <<7312,7354,1,-3008>>, <<7357,7359,1,-3008>>,
    <<7680,7828,2,1>>, <<7838,7838,1,-7615>>, <<7840,7934,2,1>>,
    <<7944,7951,1,-8>>, <<7960,7965,1,-8>>, <<7976,7983,1,-8>>,
    <<7992,7999,1,-8>>, <<8008,8013,1,-8>>, <<8025,8031,2,-8>>,
    <<8040,8047,1,-8>>, <<8072,8079,1,-8>>, <<8088,8095,1,-8>>,
    <<8104,8111,1,-8>>, <<8120,8121,1,-8>>, <<8122,8123,1,-74>>,
    <<8124,8124,1,-9>>, <<8136,8139,1,-86>>, <<8140,8140,1,-9>>,
    <<8152,8153,1,-8>>, <<8154,8155,1,-100>>, <<8168,8169,1,-8>>,
    <<8170,8171,1,-112>>, <<8172,8172,1,-7>>, <<8184,8185,1,-128>>,
    <<8186,8187,1,-126>>, <<8188,8188,1,-9>>, <<8486,8486,1,-7517>>,
    <<8490,8490,1,-8383>>, <<8491,8491,1,-8262>>, <<8498,8498,1,28>>,
    <<8544,8559,1,16>>, <<8579,8579,1,1>>, <<9398,9423,1,26>>,
    <<11264,11311,1,48>>, <<11360,11360,1,1>>, <<11362,11362,1,-10743>>,
    <<11363,11363,1,-3814>>, <<11364,11364,1,-10727>>, <<11367,11371,2,1>>,
    <<11373,11373,1,-10780>>, <<11374,11374,1,-10749>>,
    <<11375,11375,1,-10783>>, <<11376,11376,1,-10782>>, <<11378,11378,1,1>>,
    <<11381,11381,1,1>>, <<11390,11391,1,-10815>>, <<11392,11490,2,1>>,
    <<11499,11501,2,1>>, <<11506,11506,1,1>>, <<42560,42604,2,1>>,
    <<42624,42650,2,1>>, <<42786,42798,2,1>>, <<42802,42862,2,1>>,
    <<42873,42875,2,1>>, <<42877,42877,1,-35332>>, <<42878,42886,2,1>>,
    <<42891,42891,1,1>>, <<42893,42893,1,-42280>>, <<42896,42898,2,1>>,
    <<42902,42920,2,1>>, <<42922,42922,1,-42308>>, <<42923,42923,1,-42319>>,
    <<42924,42924,1,-42315>>, <<42925,42925,1,-42305>>,
    <<42926,42926,1,-42308>>, <<42928,42928,1,-42258>>,
    <<42929,42929,1,-42282>>, <<42930,42930,1,-42261>>,
    <<42931,42931,1,928>>, <<42932,42946,2,1>>, <<42948,42948,1,-48>>,
    <<42949,42949,1,-42307>>, <<42950,42950,1,-35384>>, <<42951,42953,2,1>>,
    <<42955,42955,1,-42343>>, <<42956,42970,2,1>>, <<42972,42972,1,-42561>>,
    <<42997,42997,1,1>>, <<65313,65338,1,32>>, <<66560,66599,1,40>>,
    <<66736,66771,1,40>>, <<66928,66938,1,39>>, <<66940,66954,1,39>>,
    <<66956,66962,1,39>>, <<66964,66965,1,39>>, <<68736,68786,1,64>>,
    <<68944,68965,1,32>>, <<71840,71871,1,32>>, <<93760,93791,1,32>>,
    <<93856,93880,1,27>>, <<125184,125217,1,34>> >>

(* The code points with the Unicode property Cased (Unicode 17.0), as      *)
(* ranges <<lo, hi>>.                                                      *)
CasedRanges == <<
    <<65,90>>, <<97,122>>, <<170,170>>, <<181,181>>, <<186,186>>,
    <<192,214>>, <<216,246>>, <<248,442>>, <<444,447>>, <<452,659>>,
    <<662,696>>, <<704,705>>, <<736,740>>, <<837,837>>, <<880,883>>,
    <<886,887>>, <<890,893>>, <<895,895>>, <<902,902>>, <<904,906>>,
    <<908,908>>, <<910,929>>, <<931,1013>>, <<1015,1153>>, <<1162,1327>>,
    <<1329,1366>>, <<1376,1416>>, <<4256,4293>>, <<4295,4295>>,
    <<4301,4301>>, <<4304,4346>>, <<4348,4351>>, <<5024,5109>>,
    <<5112,5117>>, <<7296,7306>>, <<7312,7354>>, <<7357,7359>>,
    <<7424,7615>>, <<7680,7957>>, <<7960,7965>>, <<7968,8005>>,
    <<8008,8013>>, <<8016,8023>>, <<8025,8025>>, <<8027,8027>>,
    <<8029,8029>>, <<8031,8061>>, <<8064,8116>>, <<8118,8124>>,
    <<8126,8126>>, <<8130,8132>>, <<8134,8140>>, <<8144,8147>>,
    <<8150,8155>>, <<8160,8172>>, <<8178,8180>>, <<8182,8188>>,
    <<8305,8305>>, <<8319,8319>>, <<8336,8348>>, <<8450,8450>>,
    <<8455,8455>>, <<8458,8467>>, <<8469,8469>>, <<8473,8477>>,
    <<8484,8484>>, <<8486,8486>>, <<8488,8488>>, <<8490,8493>>,
    <<8495,8500>>, <<8505,8505>>, <<8508,8511>>, <<8517,8521>>,
    <<8526,8526>>, <<8544,8575>>, <<8579,8580>>, <<9398,9449>>,
    <<11264,11492>>, <<11499,11502>>, <<11506,11507>>, <<11520,11557>>,
    <<11559,11559>>, <<11565,11565>>, <<42560,42605>>, <<42624,42653>>,
    <<42786,42887>>, <<42891,42894>>, <<42896,42972>>, <<42993,42998>>,
    <<43000,43002>>, <<43824,43866>>, <<43868,43881>>, <<43888,43967>>,
    <<64256,64262>>, <<64275,64279>>, <<65313,65338>>, <<65345,65370>>,
    <<66560,66639>>, <<66736,66771>>, <<66776,66811>>, <<66928,66938>>,
    <<66940,66954>>, <<66956,66962>>, <<66964,66965>>, <<66967,66977>>,
    <<66979,66993>>, <<66995,67001>>, <<67003,67004>>, <<67456,67456>>,
    <<67459,67461>>, <<67463,67504>>, <<67506,67514>>, <<68736,68786>>,
    <<68800,68850>>, <<68944,68965>>, <<68976,68997>>, <<71840,71903>>,
    <<93760,93823>>, <<93856,93880>>, <<93883,93907>>, <<119808,119892>>,
    <<119894,119964>>, <<119966,119967>>, <<119970,119970>>,
    <<119973,119974>>, <<119977,119980>>, <<119982,119993>>,
    <<119995,119995>>, <<119997,120003>>, <<120005,120069>>,
    <<120071,120074>>, <<120077,120084>>, <<120086,120092>>,
    <<120094,120121>>, <<120123,120126>>, <<120128,120132>>,
    <<120134,120134>>, <<120138,120144>>, <<120146,120485>>,
    <<120488,120512>>, <<120514,120538>>, <<120540,120570>>,
    <<120572,120596>>, <<120598,120628>>, <<120630,120654>>,
    <<120656,120686>>, <<120688,120712>>, <<120714,120744>>,
    <<120746,120770>>, <<120772,120779>>, <<122624,122633>>,
    <<122635,122654>>, <<122661,122666>>, <<122928,122989>>,
    <<125184,125251>>, <<127280,127305>>, <<127312,127337>>,
    <<127344,127369>> >>

(* The code points with the property Case_Ignorable (Unicode 17.0).        *)
CaseIgnorableRanges == <<
    <<39,39>>, <<46,46>>, <<58,58>>, <<94,94>>, <<96,96>>, <<168,168>>,
    <<173,173>>, <<175,175>>, <<180,180>>, <<183,184>>, <<688,879>>,
    <<884,885>>, <<890,890>>, <<900,901>>, <<903,903>>, <<1155,1161>>,
    <<1369,1369>>, <<1375,1375>>, <<1425,1469>>, <<1471,1471>>,
    <<1473,1474>>, <<1476,1477>>, <<1479,1479>>, <<1524,1524>>,
    <<1536,1541>>, <<1552,1562>>, <<1564,1564>>, <<1600,1600>>,
    <<1611,1631>>, <<1648,1648>>, <<1750,1757>>, <<1759,1768>>,
    <<1770,1773>>, <<1807,1807>>, <<1809,1809>>, <<1840,1866>>,
    <<1958,1968>>, <<2027,2037>>, <<2042,2042>>, <<2045,2045>>,
    <<2070,2093>>, <<2137,2139>>, <<2184,2184>>, <<2192,2193>>,
    <<2199,2207>>, <<2249,2306>>, <<2362,2362>>, <<2364,2364>>,
    <<2369,2376>>, <<2381,2381>>, <<2385,2391>>, <<2402,2403>>,
    <<2417,2417>>, <<2433,2433>>, <<2492,2492>>, <<2497,2500>>,
    <<2509,2509>>, <<2530,2531>>, <<2558,2558>>, <<2561,2562>>,
    <<2620,2620>>, <<2625,2626>>, <<2631,2632>>, <<2635,2637>>,
    <<2641,2641>>, <<2672,2673>>, <<2677,2677>>, <<2689,2690>>,
    <<2748,2748>>, <<2753,2757>>, <<2759,2760>>, <<2765,2765>>,
    <<2786,2787>>, <<2810,2815>>, <<2817,2817>>, <<2876,2876>>,
    <<2879,2879>>, <<2881,2884>>, <<2893,2893>>, <<2901,2902>>,
    <<2914,2915>>, <<2946,2946>>, <<3008,3008>>, <<3021,3021>>,
    <<3072,3072>>, <<3076,3076>>, <<3132,3132>>, <<3134,3136>>,
    <<3142,3144>>, <<3146,3149>>, <<3157,3158>>, <<3170,3171>>,
    <<3201,3201>>, <<3260,3260>>, <<3263,3263>>, <<3270,3270>>,
    <<3276,3277>>, <<3298,3299>>, <<3328,3329>>, <<3387,3388>>,
    <<3393,3396>>, <<3405,3405>>, <<3426,3427>>, <<3457,3457>>,
    <<3530,3530>>, <<3538,3540>>, <<3542,3542>>, <<3633,3633>>,
    <<3636,3642>>, <<3654,3662>>, <<3761,3761>>, <<3764,3772>>,
    <<3782,3782>>, <<3784,3790>>, <<3864,3865>>, <<3893,3893>>,
    <<3895,3895>>, <<3897,3897>>, <<3953,3966>>, <<3968,3972>>,
    <<3974,3975>>, <<3981,3991>>, <<3993,4028>>, <<4038,4038>>,
    <<4141,4144>>, <<4146,4151>>, <<4153,4154>>, <<4157,4158>>,
    <<4184,4185>>, <<4190,4192>>, <<4209,4212>>, <<4226,4226>>,
    <<4229,4230>>, <<4237,4237>>, <<4253,4253>>, <<4348,4348>>,
    <<4957,4959>>, <<5906,5908>>, <<5938,5939>>, <<5970,5971>>,
    <<6002,6003>>, <<6068,6069>>, <<6071,6077>>, <<6086,6086>>,
    <<6089,6099>>, <<6103,6103>>, <<6109,6109>>, <<6155,6159>>,
    <<6211,6211>>, <<6277,6278>>, <<6313,6313>>, <<6432,6434>>,
    <<6439,6440>>, <<6450,6450>>, <<6457,6459>>, <<6679,6680>>,
    <<6683,6683>>, <<6742,6742>>, <<6744,6750>>, <<6752,6752>>,
    <<6754,6754>>, <<6757,6764>>, <<6771,6780>>, <<6783,6783>>,
    <<6823,6823>>, <<6832,6877>>, <<6880,6891>>, <<6912,6915>>,
    <<6964,6964>>, <<6966,6970>>, <<6972,6972>>, <<6978,6978>>,
    <<7019,7027>>, <<7040,7041>>, <<7074,7077>>, <<7080,7081>>,
    <<7083,7085>>, <<7142,7142>>, <<7144,7145>>, <<7149,7149>>,
    <<7151,7153>>, <<7212,7219>>, <<7222,7223>>, <<7288,7293>>,
    <<7376,7378>>, <<7380,7392>>, <<7394,7400>>, <<7405,7405>>,
    <<7412,7412>>, <<7416,7417>>, <<7468,7530>>, <<7544,7544>>,
    <<7579,7679>>, <<8125,8125>>, <<8127,8129>>, <<8141,8143>>,
    <<8157,8159>>, <<8173,8175>>, <<8189,8190>>, <<8203,8207>>,
    <<8216,8217>>, <<8228,8228>>, <<8231,8231>>, <<8234,8238>>,
    <<8288,8292>>, <<8294,8303>>, <<8305,8305>>, <<8319,8319>>,
    <<8336,8348>>, <<8400,8432>>, <<11388,11389>>, <<11503,11505>>,
    <<11631,11631>>, <<11647,11647>>, <<11744,11775>>, <<11823,11823>>,
    <<12293,12293>>, <<12330,12333>>, <<12337,12341>>, <<12347,12347>>,
    <<12441,12446>>, <<12540,12542>>, <<40981,40981>>, <<42232,42237>>,
    <<42508,42508>>, <<42607,42610>>, <<42612,42621>>, <<42623,42623>>,
    <<42652,42655>>, <<42736,42737>>, <<42752,42785>>, <<42864,42864>>,
    <<42888,42890>>, <<42993,42996>>, <<43000,43001>>, <<43010,43010>>,
    <<43014,43014>>, <<43019,43019>>, <<43045,43046>>, <<43052,43052>>,
    <<43204,43205>>, <<43232,43249>>, <<43263,43263>>, <<43302,43309>>,
    <<43335,43345>>, <<43392,43394>>, <<43443,43443>>, <<43446,43449>>,
    <<43452,43453>>, <<43471,43471>>, <<43493,43494>>, <<43561,43566>>,
    <<43569,43570>>, <<43573,43574>>, <<43587,43587>>, <<43596,43596>>,
    <<43632,43632>>, <<43644,43644>>, <<43696,43696>>, <<43698,43700>>,
    <<43703,43704>>, <<43710,43711>>, <<43713,43713>>, <<43741,43741>>,
    <<43756,43757>>, <<43763,43764>>, <<43766,43766>>, <<43867,43871>>,
    <<43881,43883>>, <<44005,44005>>, <<44008,44008>>, <<44013,44013>>,
    <<64286,64286>>, <<64434,64450>>, <<65024,65039>>, <<65043,65043>>,
    <<65056,65071>>, <<65106,65106>>, <<65109,65109>>, <<65279,65279>>,
    <<65287,65287>>, <<65294,65294>>, <<65306,65306>>, <<65342,65342>>,
    <<65344,65344>>, <<65392,65392>>, <<65438,65439>>, <<65507,65507>>,
    <<65529,65531>>, <<66045,66045>>, <<66272,66272>>, <<66422,66426>>,
    <<67456,67461>>, <<67463,67504>>, <<67506,67514>>, <<68097,68099>>,
    <<68101,68102>>, <<68108,68111>>, <<68152,68154>>, <<68159,68159>>,
    <<68325,68326>>, <<68900,68903>>, <<68942,68942>>, <<68969,68973>>,
    <<68975,68975>>, <<69291,69292>>, <<69317,69317>>, <<69370,69375>>,
    <<69446,69456>>, <<69506,69509>>, <<69633,69633>>, <<69688,69702>>,
    <<69744,69744>>, <<69747,69748>>, <<69759,69761>>, <<69811,69814>>,
    <<69817,69818>>, <<69821,69821>>, <<69826,69826>>, <<69837,69837>>,
    <<69888,69890>>, <<69927,69931>>, <<69933,69940>>, <<70003,70003>>,
    <<70016,70017>>, <<70070,70078>>, <<70089,70092>>, <<70095,70095>>,
    <<70191,70193>>, <<70196,70196>>, <<70198,70199>>, <<70206,70206>>,
    <<70209,70209>>, <<70367,70367>>, <<70371,70378>>, <<70400,70401>>,
    <<70459,70460>>, <<70464,70464>>, <<70502,70508>>, <<70512,70516>>,
    <<70587,70592>>, <<70606,70606>>, <<70608,70608>>, <<70610,70610>>,
    <<70625,70626>>, <<70712,70719>>, <<70722,70724>>, <<70726,70726>>,
    <<70750,70750>>, <<70835,70840>>, <<70842,70842>>, <<70847,70848>>,
    <<70850,70851>>, <<71090,71093>>, <<71100,71101>>, <<71103,71104>>,
    <<71132,71133>>, <<71219,71226>>, <<71229,71229>>, <<71231,71232>>,
    <<71339,71339>>, <<71341,71341>>, <<71344,71349>>, <<71351,71351>>,
    <<71453,71453>>, <<71455,71455>>, <<71458,71461>>, <<71463,71467>>,
    <<71727,71735>>, <<71737,71738>>, <<71995,71996>>, <<71998,71998>>,
    <<72003,72003>>, <<72148,72151>>, <<72154,72155>>, <<72160,72160>>,
    <<72193,72202>>, <<72243,72248>>, <<72251,72254>>, <<72263,72263>>,
    <<72273,72278>>, <<72281,72283>>, <<72330,72342>>, <<72344,72345>>,
    <<72544,72544>>, <<72546,72548>>, <<72550,72550>>, <<72752,72758>>,
    <<72760,72765>>, <<72767,72767>>, <<72850,72871>>, <<72874,72880>>,
    <<72882,72883>>, <<72885,72886>>, <<73009,73014>>, <<73018,73018>>,
    <<73020,73021>>, <<73023,73029>>, <<73031,73031>>, <<73104,73105>>,
    <<73109,73109>>, <<73111,73111>>, <<73177,73177>>, <<73459,73460>>,
    <<73472,73473>>, <<73526,73530>>, <<73536,73536>>, <<73538,73538>>,
    <<73562,73562>>, <<78896,78912>>, <<78919,78933>>, <<90398,90409>>,
    <<90413,90415>>, <<92912,92916>>, <<92976,92982>>, <<92992,92995>>,
    <<93504,93506>>, <<93547,93548>>, <<94031,94031>>, <<94095,94111>>,
    <<94176,94177>>, <<94179,94180>>, <<94194,94195>>, <<110576,110579>>,
    <<110581,110587>>, <<110589,110590>>, <<113821,113822>>,
    <<113824,113827>>, <<118528,118573>>, <<118576,118598>>,
    <<119143,119145>>, <<119155,119170>>, <<119173,119179>>,
    <<119210,119213>>, <<119362,119364>>, <<121344,121398>>,
    <<121403,121452>>, <<121461,121461>>, <<121476,121476>>,
    <<121499,121503>>, <<121505,121519>>, <<122880,122886>>,
    <<122888,122904>>, <<122907,122913>>, <<122915,122916>>,
    <<122918,122922>>, <<122928,122989>>, <<123023,123023>>,
    <<123184,123197>>, <<123566,123566>>, <<123628,123631>>,
    <<124139,124143>>, <<124398,124399>>, <<124643,124643>>,
    <<124646,124646>>, <<124654,124655>>, <<124661,124661>>,
    <<124671,124671>>, <<125136,125142>>, <<125252,125259>>,
    <<127995,127999>>, <<917505,917505>>, <<917536,917631>>,
    <<917760,917999>> >>

(* The tables are sorted by their first column.  The largest index k in   *)
(* lo..hi with table[k][1] <= cp, or lo - 1 when there is none.            *)
RECURSIVE LastAtOrBelow(_, _, _, _)
LastAtOrBelow(table, cp, lo, hi) ==
    IF lo > hi THEN lo - 1
    ELSE LET mid == (lo + hi) \div 2
         IN  IF table[mid][1] <= cp
             THEN LastAtOrBelow(table, cp, mid + 1, hi)
             ELSE LastAtOrBelow(table, cp, lo, mid - 1)

(* The simple lower case of a code point: itself when no rule maps it.     *)
(* Below 128 the only rule is the first one, A-Z.                          *)
SimpleLower(cp) ==
    IF cp < 128
    THEN IF cp >= LowerRules[1][1] /\ cp <= LowerRules[1][2]
         THEN cp + LowerRules[1][4] ELSE cp
    ELSE LET k == LastAtOrBelow(LowerRules, cp, 1, Len(LowerRules))
         IN  IF k >= 1 /\ cp <= LowerRules[k][2]
                   /\ (cp - LowerRules[k][1]) % LowerRules[k][3] = 0
             THEN cp + LowerRules[k][4]
             ELSE cp

InRanges(cp, ranges) ==
    LET k == LastAtOrBelow(ranges, cp, 1, Len(ranges))
    IN  k >= 1 /\ cp <= ranges[k][2]

(* The Unicode properties Cased and Case_Ignorable of a code point.        *)
Cased(cp) == InRanges(cp, CasedRanges)

CaseIgnorable(cp) == InRanges(cp, CaseIgnorableRanges)

(* Before index i + 1 of s there is a cased letter followed only by        *)
(* case-ignorable code points.                                             *)
RECURSIVE CasedLetterBefore(_, _)
CasedLetterBefore(s, i) ==
    IF i < 1 THEN FALSE
    ELSE LET cp == CodePointBefore(s, i)
         IN  IF CaseIgnorable(cp)
             THEN CasedLetterBefore(s, i - Len(CodeUnits(cp)))
             ELSE Cased(cp)

(* From index i of s on there are only case-ignorable code points and then *)
(* a cased letter.                                                         *)
RECURSIVE CasedLetterAfter(_, _)
CasedLetterAfter(s, i) ==
    IF i > Len(s) THEN FALSE
    ELSE LET cp == CodePointAt(s, i)
         IN  IF CaseIgnorable(cp)
             THEN CasedLetterAfter(s, i + Len(CodeUnits(cp)))
             ELSE Cased(cp)

(* The condition Final_Sigma of SpecialCasing for the sigma at index i.    *)
FinalSigma(s, i) == CasedLetterBefore(s, i - 1) /\ ~CasedLetterAfter(s, i + 1)

(* The lower case of the code point cp that starts at index i of s, as     *)
(* code units.  U+03A3 (capital sigma, 931) lowers to U+03C2 (962) in      *)
(* final position and to U+03C3 (963) elsewhere; U+0130 (capital I with    *)
(* dot above, 304) lowers to the two code units U+0069 U+0307.             *)
LowerCodePointAt(s, i) ==
    LET cp == CodePointAt(s, i)
    IN  IF cp = 931 THEN (IF FinalSigma(s, i) THEN <<962>> ELSE <<963>>)
        ELSE IF cp = 304 THEN <<105, 775>>
        ELSE CodeUnits(SimpleLower(cp))

ToLowerCaseIdentity(s) == s

(* s.toLowerCase(): the lower cases of the code points of s, in order.     *)
(* A code unit below 128 is a code point by itself with a simple lower     *)
(* case.                                                                   *)
ToLowerCase(s) ==
    LET from[i \in 1..(Len(s) + 1)] ==
            IF i > Len(s) THEN << >>
            ELSE IF s[i] < 128 THEN <<SimpleLower(s[i])>> \o from[i + 1]
            ELSE LowerCodePointAt(s, i)
                     \o from[i + Len(CodeUnits(CodePointAt(s, i)))]
    IN  from[1]

EmptyEmail == << >>

EmptyString == ""

-----------------------------------------------------------------------------
(* The mock database                                                       *)

(* 'user@example.com' *)
SeedUserEmail ==
    <<117,115,101,114,64,101,120,97,109,112,108,101,46,99,111,109>>

(* 'test@mail.com' *)
SeedTestEmail ==
    <<116,101,115,116,64,109,97,105,108,46,99,111,109>>

InitialRegisteredUsers ==
    << [email |-> SeedUserEmail, username |-> "demo",   password |-> "password123"],
       [email |-> SeedTestEmail, username |-> "tester", password |-> "securepass"] >>

(* Array.prototype.some with the callback of isEmailAlreadyRegistered:     *)
(* scans users from index i on and stops at the first match.               *)
RECURSIVE SomeUserMatches(_, _, _)
SomeUserMatches(users, i, email) ==
    IF i > Len(users) THEN FALSE
    ELSE IF ToLowerCase(users[i].email) = ToLowerCase(email) THEN TRUE
    ELSE SomeUserMatches(users, i + 1, email)

RECURSIVE SomeUserMatchesExact(_, _, _)
SomeUserMatchesExact(users, i, email) ==
    IF i > Len(users) THEN FALSE
    ELSE IF ToLowerCase(users[i].email) = email THEN TRUE
    ELSE SomeUserMatchesExact(users, i + 1, email)

IsEmailAlreadyRegisteredCaseSensitive(users, email) ==
    SomeUserMatchesExact(users, 1, email)

IsEmailAlreadyRegisteredSkipsLast(users, email) ==
    SomeUserMatches(SubSeq(users, 1, Len(users) - 1), 1, email)

IsEmailAlreadyRegistered(users, email) == SomeUserMatches(users, 1, email)

-----------------------------------------------------------------------------
(* The signup wizard                                                       *)

SignupStepCount == 2

NavigateSignupStepUnchecked(cur, direction) == cur + direction

NavigateSignupStepOffByOne(cur, direction) ==
    LET nextStep == cur + direction
    IN  IF nextStep > 0 /\ nextStep < SignupStepCount THEN nextStep ELSE cur

NavigateSignupStepStuck(cur, direction) ==
    LET nextStep == cur + direction
    IN  IF nextStep >= 0 /\ nextStep < SignupStepCount - 1 THEN nextStep ELSE cur

NavigateSignupStep(cur, direction) ==
    LET nextStep == cur + direction
    IN  IF nextStep >= 0 /\ nextStep < SignupStepCount THEN nextStep ELSE cur

(* The required inputs of a step, as the booleans `!input.value` of each.  *)
RequiredInputsEmpty(step) ==
    IF step = 0
    THEN <<regEmail = EmptyEmail, regUsername = EmptyString>>
    ELSE <<regPassword = EmptyString, regConfirmPassword = EmptyString>>

AllValidFirstOnly(empties) == Len(empties) = 0 \/ ~empties[1]

AllValid(empties) == \A i \in 1..Len(empties) : ~empties[i]

NewUserLowercased(email, username, password) ==
    [email |-> ToLowerCase(email), username |-> username, password |-> password]

NewUser(email, username, password) ==
    [email |-> email, username |-> username, password |-> password]

ResetKeepsStep(cur) == cur

(* currentSignupStep = 0 after a successful submit (script.js:191)         *)
ResetSignupStep(cur) == 0

PushFront(users, user) == <<user>> \o users

(* Array.prototype.push *)
Push(users, user) == Append(users, user)

-----------------------------------------------------------------------------
(* Inputs                                                                  *)

(* 'USER@EXAMPLE.COM' *)
UpperUserEmail ==
    <<85,83,69,82,64,69,88,65,77,80,76,69,46,67,79,77>>

(* 'new@k.com' *)
NewEmail ==
    <<110,101,119,64,107,46,99,111,109>>

(* 'New@\u212A.com': the K is U+212A, the Kelvin sign, whose lower case is k. *)
MixedNewEmail ==
    <<78,101,119,64,8490,46,99,111,109>>

EmailInputs == {EmptyEmail, SeedUserEmail, UpperUserEmail, NewEmail, MixedNewEmail}

(* One email of each kind the handlers tell apart: none, a registered one  *)
(* (up to letter case) and an unregistered one.  The specifications that   *)
(* drive several forms at once type these.                                 *)
EmailKinds == {EmptyEmail, UpperUserEmail, NewEmail}

(* 'TEST@MA\u0130L.COM': lowers to a string one code unit longer than      *)
(* 'test@mail.com'.                                                        *)
DottedTestEmail ==
    <<84,69,83,84,64,77,65,304,76,46,67,79,77>>

(* The emails a direct call of isEmailAlreadyRegistered is made with.      *)
QueryInputs == {UpperUserEmail, MixedNewEmail, DottedTestEmail}

UsernameInputs == {EmptyString, "x"}

PasswordInputs == {EmptyString, "abc"}

ConfirmInputs == {EmptyString, "abc", "xyz"}

-----------------------------------------------------------------------------
(* The forms showMessage is called for.                                    *)
FormIds == {"loginForm", "signupForm", "appointmentForm", "contactForm"}

(* showMessage: its message elements and timers                            *)

MaxMessages == 2

(* The elements of a form that match '.submission-message', after          *)
(* `existingMessage.remove()`: querySelector finds the first one only.     *)
KeepExisting(elements) == elements

RemoveExisting(elements) ==
    IF elements = << >> THEN elements ELSE Tail(elements)

(* msgElement.remove(): detaches the element if it is still attached.      *)
RemoveElement(elements, id) ==
    SelectSeq(elements, LAMBDA x : x # id)

(* The message elements after showMessage(formId, ...) created element id. *)
MessagesAfterShow(formId, id) ==
    [messages EXCEPT ![formId] = Append(RemoveExisting(messages[formId]), id)]

(* The DOM effect of one showMessage(formId, message, isError) call.       *)
ShowMessage(formId) ==
    /\ created < MaxMessages
    /\ created' = created + 1
    /\ messages' = MessagesAfterShow(formId, created + 1)
    /\ timers' = timers \cup {[form |-> formId, id |-> created + 1]}

(* The 7000 ms timer of a message expires: () => msgElement.remove().      *)
TimerCallback(t) ==
    /\ messages' = [messages EXCEPT ![t.form] = RemoveElement(messages[t.form], t.id)]
    /\ timers' = timers \ {t}
    /\ UNCHANGED created

MessageTimerFires ==
    /\ \E t \in timers : TimerCallback(t)
    /\ event' = "timer" /\ feedback' = "none" /\ queried' = << >>
    /\ UNCHANGED <<registeredUsers, currentSignupStep, fieldVars,
                   appointmentVars, loopVars, lockstep>>

(* showMessage('signupForm', ...) when the handler displayed a message.    *)
SignupShowsMessage ==
    IF feedback' \in {"duplicate", "mismatch", "complete"}
    THEN ShowMessage("signupForm")
    ELSE UNCHANGED messageVars

-----------------------------------------------------------------------------
(* The appointment wizard                                                  *)

AppointmentStepCount == SignupStepCount

(* The number of required inputs of each appointment step: the alerts of   *)
(* the appointment handlers name "the required field" of the step          *)
(* (script.js:225, 266).                                                   *)
AppointmentRequiredCount == 1

AppointmentInputValues == {EmptyString, "v"}

(* The required inputs of the appointment form after form.reset().         *)
ClearedAppointmentInputs ==
    [step \in 0..(AppointmentStepCount - 1) |->
        [i \in 1..AppointmentRequiredCount |-> EmptyString]]

(* The required inputs of an appointment step, as the booleans             *)
(* `!input.value` of each.                                                 *)
AppointmentInputsEmpty(step) ==
    [i \in 1..AppointmentRequiredCount |-> apptInputs[step][i] = EmptyString]

(* allValid of navigateAppointmentStep: every required input has a value.  *)
AppointmentAllValid(empties) == \A i \in 1..Len(empties) : ~empties[i]

NavigateAppointmentStepValidatesBoth(cur, direction, empties) ==
    LET nextStep == cur + direction
    IN  IF ~AppointmentAllValid(empties) THEN cur
        ELSE IF nextStep >= 0 /\ nextStep < AppointmentStepCount
             THEN nextStep ELSE cur

(* navigateAppointmentStep(direction), with `empties` the `!input.value`   *)
(* of the required inputs of the active appointment step.                  *)
NavigateAppointmentStep(cur, direction, empties) ==
    LET nextStep == cur + direction
    IN  IF direction = 1 /\ ~AppointmentAllValid(empties) THEN cur
        ELSE IF nextStep >= 0 /\ nextStep < AppointmentStepCount
             THEN nextStep ELSE cur

-----------------------------------------------------------------------------
(* lockstep is a history variable: no handler reads it.  It records        *)
(* whether the next/prev clicks made so far on the signup form and on the  *)
(* appointment form make up one common sequence of events.  SpecWizards,   *)
(* which drives both wizards, maintains it; the other specifications       *)
(* observe no pairing and leave it as it is.                               *)

(* Every click made so far on one form has its counterpart on the other.   *)
Even == [phase |-> "even", direction |-> 0, blocked |-> FALSE]

-----------------------------------------------------------------------------
(* Initial state: the script has run, the forms are empty.                 *)

Init ==
    /\ registeredUsers = InitialRegisteredUsers
    /\ currentSignupStep = 0
    /\ regEmail = EmptyEmail
    /\ regUsername = EmptyString
    /\ regPassword = EmptyString
    /\ regConfirmPassword = EmptyString
    /\ event = "load"
    /\ feedback = "none"
    /\ queried = << >>
    /\ currentAppointmentStep = 0
    /\ apptInputs = ClearedAppointmentInputs
    /\ taskQueue = << >>
    /\ submitPc = "idle"
    /\ messages = [f \in FormIds |-> << >>]
    /\ timers = {}
    /\ created = 0
    /\ lockstep = Even

(* The user edits one input of the signup form.                            *)
TypeEmailFrom(inputs) ==
    /\ \E v \in inputs : regEmail' = v
    /\ event' = "input" /\ feedback' = "none" /\ queried' = << >>
    /\ UNCHANGED <<registeredUsers, currentSignupStep, regUsername,
                   regPassword, regConfirmPassword>>

TypeEmail == TypeEmailFrom(EmailInputs)

TypeUsername ==
    /\ \E v \in UsernameInputs : regUsername' = v
    /\ event' = "input" /\ feedback' = "none" /\ queried' = << >>
    /\ UNCHANGED <<registeredUsers, currentSignupStep, regEmail,
                   regPassword, regConfirmPassword>>

TypePassword ==
    /\ \E v \in PasswordInputs : regPassword' = v
    /\ event' = "input" /\ feedback' = "none" /\ queried' = << >>
    /\ UNCHANGED <<registeredUsers, currentSignupStep, regEmail,
                   regUsername, regConfirmPassword>>

TypeConfirmPasswordFrom(inputs) ==
    /\ \E v \in inputs : regConfirmPassword' = v
    /\ event' = "input" /\ feedback' = "none" /\ queried' = << >>
    /\ UNCHANGED <<registeredUsers, currentSignupStep, regEmail,
                   regUsername, regPassword>>

TypeConfirmPassword == TypeConfirmPasswordFrom(ConfirmInputs)

Call(email) == [email |-> email,
                result |-> IsEmailAlreadyRegistered(registeredUsers, email)]

(* Click on a .next-step-btn of the signup form.                           *)
NextStepClick ==
    /\ event' = "next"
    /\ IF AllValid(RequiredInputsEmpty(currentSignupStep))
       THEN IF currentSignupStep = 0
            THEN /\ queried' = <<Call(regEmail)>>
                 /\ IF IsEmailAlreadyRegistered(registeredUsers, regEmail)
                    THEN /\ feedback' = "duplicate"
                         /\ UNCHANGED currentSignupStep
                    ELSE /\ feedback' = "none"
                         /\ currentSignupStep' = NavigateSignupStep(currentSignupStep, 1)
            ELSE /\ queried' = << >>
                 /\ feedback' = "none"
                 /\ currentSignupStep' = NavigateSignupStep(currentSignupStep, 1)
       ELSE /\ feedback' = "alert"
            /\ queried' = << >>
            /\ UNCHANGED currentSignupStep
    /\ UNCHANGED <<registeredUsers, fieldVars>>

(* Click on a .prev-step-btn of the signup form.                           *)
PrevStepClick ==
    /\ event' = "prev"
    /\ feedback' = "none"
    /\ queried' = << >>
    /\ currentSignupStep' = NavigateSignupStep(currentSignupStep, -1)
    /\ UNCHANGED <<registeredUsers, fieldVars>>

(* The submit handler with its two checks in the other order.              *)
SignupSubmitDuplicateFirst ==
    /\ event' = "submit"
    /\ queried' = <<Call(regEmail)>>
    /\ IF IsEmailAlreadyRegistered(registeredUsers, regEmail)
       THEN /\ feedback' = "duplicate"
            /\ UNCHANGED <<registeredUsers, currentSignupStep, fieldVars>>
       ELSE IF regPassword # regConfirmPassword
            THEN /\ feedback' = "mismatch"
                 /\ UNCHANGED <<registeredUsers, currentSignupStep, fieldVars>>
            ELSE /\ registeredUsers' =
                       Push(registeredUsers,
                            NewUser(regEmail, regUsername, regPassword))
                 /\ feedback' = "complete"
                 /\ regEmail' = EmptyEmail
                 /\ regUsername' = EmptyString
                 /\ regPassword' = EmptyString
                 /\ regConfirmPassword' = EmptyString
                 /\ currentSignupStep' = ResetSignupStep(currentSignupStep)

(* The submit handler if it ignored submits made before the last step.     *)
SignupSubmitLastStepOnly ==
    /\ event' = "submit"
    /\ IF currentSignupStep # SignupStepCount - 1
       THEN /\ feedback' = "none"
            /\ queried' = << >>
            /\ UNCHANGED <<registeredUsers, currentSignupStep, fieldVars>>
       ELSE IF regPassword # regConfirmPassword
       THEN /\ feedback' = "mismatch"
            /\ queried' = << >>
            /\ UNCHANGED <<registeredUsers, currentSignupStep, fieldVars>>
       ELSE /\ queried' = <<Call(regEmail)>>
            /\ IF IsEmailAlreadyRegistered(registeredUsers, regEmail)
               THEN /\ feedback' = "duplicate"
                    /\ UNCHANGED <<registeredUsers, currentSignupStep, fieldVars>>
               ELSE /\ registeredUsers' =
                          Push(registeredUsers,
                               NewUser(regEmail, regUsername, regPassword))
                    /\ feedback' = "complete"
                    /\ regEmail' = EmptyEmail
                    /\ regUsername' = EmptyString
                    /\ regPassword' = EmptyString
                    /\ regConfirmPassword' = EmptyString
                    /\ currentSignupStep' = ResetSignupStep(currentSignupStep)

(* Submit event on the signup form.                                        *)
SignupSubmit ==
    /\ event' = "submit"
    /\ IF regPassword # regConfirmPassword
       THEN /\ feedback' = "mismatch"
            /\ queried' = << >>
            /\ UNCHANGED <<registeredUsers, currentSignupStep, fieldVars>>
       ELSE /\ queried' = <<Call(regEmail)>>
            /\ IF IsEmailAlreadyRegistered(registeredUsers, regEmail)
               THEN /\ feedback' = "duplicate"
                    /\ UNCHANGED <<registeredUsers, currentSignupStep, fieldVars>>
               ELSE /\ registeredUsers' =
                          Push(registeredUsers,
                               NewUser(regEmail, regUsername, regPassword))
                    /\ feedback' = "complete"
                    /\ regEmail' = EmptyEmail
                    /\ regUsername' = EmptyString
                    /\ regPassword' = EmptyString
                    /\ regConfirmPassword' = EmptyString
                    /\ currentSignupStep' = ResetSignupStep(currentSignupStep)

(* What an edit of an input leaves alone.                                  *)
otherVars == <<currentAppointmentStep, apptInputs, taskQueue, submitPc,
               messages, timers, created, lockstep>>

(* Every event is dispatched as soon as it is raised and its handler runs  *)
(* to completion; a handler that displays a message calls showMessage.     *)
Next ==
    \/ TypeEmail /\ UNCHANGED otherVars
    \/ TypeUsername /\ UNCHANGED otherVars
    \/ TypePassword /\ UNCHANGED otherVars
    \/ TypeConfirmPassword /\ UNCHANGED otherVars
    \/ NextStepClick /\ SignupShowsMessage
           /\ UNCHANGED <<appointmentVars, loopVars, lockstep>>
    \/ PrevStepClick /\ SignupShowsMessage
           /\ UNCHANGED <<appointmentVars, loopVars, lockstep>>
    \/ SignupSubmit /\ SignupShowsMessage
           /\ UNCHANGED <<appointmentVars, loopVars, lockstep>>
    \/ MessageTimerFires

Spec == Init /\ [][Next]_vars

(* A direct call of isEmailAlreadyRegistered(email), outside any handler.  *)
CallIsEmailAlreadyRegistered ==
    /\ \E email \in QueryInputs : queried' = <<Call(email)>>
    /\ event' = "call"
    /\ feedback' = "none"
    /\ UNCHANGED <<registeredUsers, currentSignupStep, fieldVars>>

NextQuery ==
    \/ Next
    \/ CallIsEmailAlreadyRegistered /\ UNCHANGED otherVars

SpecQuery == Init /\ [][NextQuery]_vars

-----------------------------------------------------------------------------
(* The handlers of the other forms, and the timers of their messages.      *)
(* NextMessages has every handler that calls showMessage: the submit       *)
(* handlers of the four forms (script.js:100, 164, 171, 183, 260, 272) and *)
(* the signup next click (script.js:139).  The password confirmation stays *)
(* empty: a typed password makes the submit handler see a mismatch, an     *)
(* empty one lets it go on to the duplicate check.                         *)

(* Submit event on the login form (script.js:98-101) or on the contact     *)
(* form (script.js:270-273): a success message; the form.reset() of        *)
(* showMessage clears inputs that nothing else reads.                      *)
LoginSubmit ==
    /\ ShowMessage("loginForm")
    /\ event' = "login" /\ feedback' = "complete" /\ queried' = << >>
    /\ UNCHANGED <<registeredUsers, currentSignupStep, fieldVars,
                   appointmentVars, loopVars, lockstep>>

ContactSubmit ==
    /\ ShowMessage("contactForm")
    /\ event' = "contact" /\ feedback' = "complete" /\ queried' = << >>
    /\ UNCHANGED <<registeredUsers, currentSignupStep, fieldVars,
                   appointmentVars, loopVars, lockstep>>

(* The user edits one required input of the appointment form.              *)
TypeAppointment ==
    /\ \E step \in 0..(AppointmentStepCount - 1), i \in 1..AppointmentRequiredCount,
          v \in AppointmentInputValues :
           apptInputs' = [apptInputs EXCEPT ![step][i] = v]
    /\ event' = "input" /\ feedback' = "none" /\ queried' = << >>
    /\ UNCHANGED <<registeredUsers, currentSignupStep, fieldVars,
                   currentAppointmentStep, loopVars, messageVars, lockstep>>

(* Click on a .next-btn of the appointment form.                           *)
AppointmentNextClick ==
    /\ event' = "apnext"
    /\ queried' = << >>
    /\ feedback' =
           IF AppointmentAllValid(AppointmentInputsEmpty(currentAppointmentStep))
           THEN "none" ELSE "alert"
    /\ currentAppointmentStep' =
           NavigateAppointmentStep(currentAppointmentStep, 1,
                                   AppointmentInputsEmpty(currentAppointmentStep))
    /\ UNCHANGED <<registeredUsers, currentSignupStep, fieldVars, apptInputs,
                   loopVars, messageVars>>

(* Click on a .prev-btn of the appointment form.                           *)
AppointmentPrevClick ==
    /\ event' = "apprev"
    /\ queried' = << >>
    /\ feedback' = "none"
    /\ currentAppointmentStep' =
           NavigateAppointmentStep(currentAppointmentStep, -1,
                                   AppointmentInputsEmpty(currentAppointmentStep))
    /\ UNCHANGED <<registeredUsers, currentSignupStep, fieldVars, apptInputs,
                   loopVars, messageVars>>

(* Submit event on the appointment form: with the required inputs of the   *)
(* active step filled, a success message (whose form.reset() clears the    *)
(* inputs) and back to step 0; otherwise an alert.                         *)
AppointmentSubmit ==
    /\ event' = "apsubmit"
    /\ queried' = << >>
    /\ IF AppointmentAllValid(AppointmentInputsEmpty(currentAppointmentStep))
       THEN /\ feedback' = "complete"
            /\ ShowMessage("appointmentForm")
            /\ apptInputs' = ClearedAppointmentInputs
            /\ currentAppointmentStep' = 0
       ELSE /\ feedback' = "alert"
            /\ UNCHANGED <<appointmentVars, messageVars>>
    /\ UNCHANGED <<registeredUsers, currentSignupStep, fieldVars, loopVars>>

NextMessages ==
    \/ LoginSubmit
    \/ ContactSubmit
    \/ TypeAppointment
    \/ AppointmentSubmit /\ UNCHANGED lockstep
    \/ TypeEmailFrom(EmailKinds) /\ UNCHANGED otherVars
    \/ TypeUsername /\ UNCHANGED otherVars
    \/ TypePassword /\ UNCHANGED otherVars
    \/ NextStepClick /\ SignupShowsMessage
           /\ UNCHANGED <<appointmentVars, loopVars, lockstep>>
    \/ PrevStepClick /\ SignupShowsMessage
           /\ UNCHANGED <<appointmentVars, loopVars, lockstep>>
    \/ SignupSubmit /\ SignupShowsMessage
           /\ UNCHANGED <<appointmentVars, loopVars, lockstep>>
    \/ MessageTimerFires

SpecMessages == Init /\ [][NextMessages]_vars

(* Every timer set by setTimeout eventually expires.                       *)
FairSpecMessages == SpecMessages /\ WF_vars(MessageTimerFires)

-----------------------------------------------------------------------------
(* The event loop: events are queued and dispatched one at a time; the     *)
(* submit handler is split at the point between its checks and its push.   *)

MaxQueue == 2

NoTimer == [form |-> "none", id |-> 0]

Task(kind, t) == [kind |-> kind, timer |-> t]

CanDispatchAlways == TRUE

(* A queued task is dispatched only when no handler is running: handlers   *)
(* run to completion and the submit handler never awaits or yields.        *)
CanDispatch == submitPc = "idle"

(* The user raises a click or submit event; the browser queues it.         *)
RaiseEvent ==
    /\ Len(taskQueue) < MaxQueue
    /\ \E kind \in {"next", "prev", "submit"} :
           taskQueue' = Append(taskQueue, Task(kind, NoTimer))
    /\ UNCHANGED <<signupVars, appointmentVars, submitPc, messageVars, lockstep>>

(* A timer set by showMessage expires; its callback is queued.             *)
TimerExpires ==
    /\ Len(taskQueue) < MaxQueue
    /\ \E t \in timers :
           /\ \A k \in 1..Len(taskQueue) : taskQueue[k] # Task("timer", t)
           /\ taskQueue' = Append(taskQueue, Task("timer", t))
    /\ UNCHANGED <<signupVars, appointmentVars, submitPc, messageVars, lockstep>>

(* The user edits one input between two tasks.                             *)
LoopType ==
    /\ CanDispatch
    /\ \/ TypeEmail
       \/ TypeUsername
       \/ TypePassword
       \/ TypeConfirmPassword
    /\ UNCHANGED otherVars

DispatchNext ==
    /\ CanDispatch
    /\ taskQueue # << >> /\ Head(taskQueue).kind = "next"
    /\ taskQueue' = Tail(taskQueue)
    /\ NextStepClick
    /\ SignupShowsMessage
    /\ UNCHANGED <<appointmentVars, submitPc, lockstep>>

DispatchPrev ==
    /\ CanDispatch
    /\ taskQueue # << >> /\ Head(taskQueue).kind = "prev"
    /\ taskQueue' = Tail(taskQueue)
    /\ PrevStepClick
    /\ SignupShowsMessage
    /\ UNCHANGED <<appointmentVars, submitPc, lockstep>>

DispatchTimer ==
    /\ CanDispatch
    /\ taskQueue # << >> /\ Head(taskQueue).kind = "timer"
    /\ taskQueue' = Tail(taskQueue)
    /\ TimerCallback(Head(taskQueue).timer)
    /\ event' = "timer" /\ feedback' = "none" /\ queried' = << >>
    /\ UNCHANGED <<registeredUsers, currentSignupStep, fieldVars,
                   appointmentVars, submitPc, lockstep>>

(* The submit handler up to and including its two checks (script.js:153-   *)
(* 173): a failed check completes the handler, otherwise it goes on.       *)
DispatchSubmit ==
    /\ CanDispatch
    /\ taskQueue # << >> /\ Head(taskQueue).kind = "submit"
    /\ taskQueue' = Tail(taskQueue)
    /\ IF \/ regPassword # regConfirmPassword
          \/ IsEmailAlreadyRegistered(registeredUsers, regEmail)
       THEN /\ SignupSubmit
            /\ SignupShowsMessage
            /\ UNCHANGED submitPc
       ELSE /\ submitPc' = "checked"
            /\ event' = "submit"
            /\ feedback' = "none"
            /\ queried' = <<Call(regEmail)>>
            /\ UNCHANGED <<registeredUsers, currentSignupStep, fieldVars, messageVars>>
    /\ UNCHANGED <<appointmentVars, lockstep>>

(* The rest of the submit handler (script.js:175-199): push, message,      *)
(* form reset, back to step 0.                                             *)
SubmitCommit ==
    /\ submitPc = "checked"
    /\ submitPc' = "idle"
    /\ registeredUsers' =
           Push(registeredUsers, NewUser(regEmail, regUsername, regPassword))
    /\ event' = "submit"
    /\ feedback' = "complete"
    /\ SignupShowsMessage
    /\ regEmail' = EmptyEmail
    /\ regUsername' = EmptyString
    /\ regPassword' = EmptyString
    /\ regConfirmPassword' = EmptyString
    /\ currentSignupStep' = ResetSignupStep(currentSignupStep)
    /\ UNCHANGED <<queried, appointmentVars, taskQueue, lockstep>>

NextLoop ==
    \/ RaiseEvent
    \/ TimerExpires
    \/ LoopType
    \/ DispatchNext
    \/ DispatchPrev
    \/ DispatchTimer
    \/ DispatchSubmit
    \/ SubmitCommit

SpecLoop == Init /\ [][NextLoop]_vars

(* Some entry of users has the given email, up to letter case.             *)
Registered(users, email) ==
    \E i \in 1..Len(users) : ToLowerCase(users[i].email) = ToLowerCase(email)

-----------------------------------------------------------------------------
(* The two wizards side by side: every handler of either form is an event  *)
(* of its own, and lockstep records how the clicks pair up.                *)

(* The clicks so far are not one common sequence.                          *)
OutOfStep == [phase |-> "off", direction |-> 0, blocked |-> FALSE]

(* A click on `form` whose counterpart on the other form is still to come: *)
(* its direction, and whether some required input of the step that was     *)
(* active at the click was empty.                                          *)
Awaiting(form, direction, blocked) ==
    [phase |-> form, direction |-> direction, blocked |-> blocked]

OtherForm(form) ==
    IF form = "signupForm" THEN "appointmentForm" ELSE "signupForm"

(* lockstep after a next/prev click on `form`.  The click either opens a   *)
(* pair, or closes the pair the other form opened with the same direction  *)
(* and the same emptiness; anything else, and a click made with a          *)
(* registered email entered, ends the common sequence.                     *)
AfterClick(form, direction, blocked, registered) ==
    IF registered THEN OutOfStep
    ELSE IF lockstep = Even THEN Awaiting(form, direction, blocked)
    ELSE IF lockstep = Awaiting(OtherForm(form), direction, blocked) THEN Even
    ELSE OutOfStep

(* A click on a .next-step-btn (1) or .prev-step-btn (-1) of the signup    *)
(* form, as lockstep sees it.                                              *)
SignupClickPaired(direction) ==
    lockstep' = AfterClick("signupForm", direction,
                           ~AllValid(RequiredInputsEmpty(currentSignupStep)),
                           direction = 1 /\ Registered(registeredUsers, regEmail))

(* A click on a .next-btn (1) or .prev-btn (-1) of the appointment form.   *)
AppointmentClickPaired(direction) ==
    lockstep' = AfterClick("appointmentForm", direction,
                           ~AppointmentAllValid(AppointmentInputsEmpty(currentAppointmentStep)),
                           FALSE)

(* A submit that goes through resets the index of its form to 0            *)
(* (script.js:190-192, 262-264): the forms are no longer driven by next    *)
(* and prev clicks alone.  A submit that fails moves nothing.              *)
SubmitUnpairs ==
    lockstep' = IF feedback' = "complete" THEN OutOfStep ELSE lockstep

NextWizards ==
    \/ TypeEmailFrom(EmailKinds) /\ UNCHANGED otherVars
    \/ TypeUsername /\ UNCHANGED otherVars
    \/ TypePassword /\ UNCHANGED otherVars
    \/ TypeConfirmPasswordFrom(PasswordInputs) /\ UNCHANGED otherVars
    \/ TypeAppointment
    \/ NextStepClick /\ SignupShowsMessage /\ SignupClickPaired(1)
           /\ UNCHANGED <<appointmentVars, loopVars>>
    \/ PrevStepClick /\ SignupShowsMessage /\ SignupClickPaired(-1)
           /\ UNCHANGED <<appointmentVars, loopVars>>
    \/ SignupSubmit /\ SignupShowsMessage /\ SubmitUnpairs
           /\ UNCHANGED <<appointmentVars, loopVars>>
    \/ AppointmentNextClick /\ AppointmentClickPaired(1)
    \/ AppointmentPrevClick /\ AppointmentClickPaired(-1)
    \/ AppointmentSubmit /\ SubmitUnpairs
    \/ MessageTimerFires

SpecWizards == Init /\ [][NextWizards]_vars

-----------------------------------------------------------------------------
(* Properties                                                              *)

(* Some required input of the given step is the empty string.              *)
SomeRequiredEmpty(step) ==
    IF step = 0
    THEN regEmail = EmptyEmail \/ regUsername = EmptyString
    ELSE regPassword = EmptyString \/ regConfirmPassword = EmptyString

(* C1: no two entries of registeredUsers have emails that are equal after  *)
(* lowercasing.                                                            *)
C1_NoDuplicateEmails ==
    \A i, j \in 1..Len(registeredUsers) :
        i # j => ToLowerCase(registeredUsers[i].email)
                     # ToLowerCase(registeredUsers[j].email)

C1_Witness ==
    /\ Len(registeredUsers) = Len(InitialRegisteredUsers) + 1
    /\ registeredUsers[Len(registeredUsers)].email = MixedNewEmail
    /\ event = "next"
    /\ feedback = "duplicate"
    /\ regEmail = NewEmail

(* C2: the active index of the signup wizard is always a valid step index: *)
(* 0 <= currentSignupStep < number of signup steps.                        *)
C2_StepInRange ==
    currentSignupStep >= 0 /\ currentSignupStep < SignupStepCount

C2_Witness ==
    /\ event = "next"
    /\ currentSignupStep = SignupStepCount - 1
    /\ feedback = "none"
    /\ queried = << >>

(* C3: a next click at step 0 with all required fields filled and an email *)
(* that is registered (case-insensitively) is blocked as duplicate-email:  *)
(* index and directory stay as they are; and every step from index 0 to    *)
(* index 1 is taken with an email that is not registered at that moment.   *)
C3_DuplicateBlocksAdvance ==
    [][ /\ ( /\ event' = "next"
             /\ currentSignupStep = 0
             /\ ~SomeRequiredEmpty(0)
             /\ Registered(registeredUsers, regEmail) )
            => ( /\ currentSignupStep' = 0
                 /\ registeredUsers' = registeredUsers
                 /\ feedback' = "duplicate" )
        /\ (currentSignupStep = 0 /\ currentSignupStep' = 1)
            => ~Registered(registeredUsers, regEmail) ]_vars

C3_Witness ==
    /\ event = "next"
    /\ feedback = "duplicate"
    /\ currentSignupStep = 0
    /\ regEmail = UpperUserEmail
    /\ regUsername = "x"

(* C4: a next click while some required field of the current step is empty *)
(* is blocked as missing-fields, from every index: the index and the       *)
(* directory are unchanged.                                                *)
C4_MissingFieldsBlockAdvance ==
    [][ (event' = "next" /\ SomeRequiredEmpty(currentSignupStep))
            => ( /\ currentSignupStep' = currentSignupStep
                 /\ registeredUsers' = registeredUsers
                 /\ feedback' = "alert" ) ]_vars

C4_Witness ==
    /\ event = "next"
    /\ feedback = "alert"
    /\ currentSignupStep = 1
    /\ regPassword # EmptyString
    /\ regConfirmPassword = EmptyString

(* C5: isEmailAlreadyRegistered is never called with the empty string by   *)
(* any handler.                                                            *)
C5_NeverQueriesEmptyEmail ==
    \A i \in 1..Len(queried) : queried[i].email # EmptyEmail

(* C6: a submit with password = confirmPassword and an unregistered email  *)
(* appends exactly one entry, last, holding the email (original case),     *)
(* username and password as entered, and sets the active index to 0.       *)
C6_SubmitSuccess ==
    [][ ( /\ event' = "submit"
          /\ regPassword = regConfirmPassword
          /\ ~Registered(registeredUsers, regEmail) )
            => ( /\ Len(registeredUsers') = Len(registeredUsers) + 1
                 /\ SubSeq(registeredUsers', 1, Len(registeredUsers)) = registeredUsers
                 /\ registeredUsers'[Len(registeredUsers')].email = regEmail
                 /\ registeredUsers'[Len(registeredUsers')].username = regUsername
                 /\ registeredUsers'[Len(registeredUsers')].password = regPassword
                 /\ currentSignupStep' = 0
                 /\ feedback' = "complete" ) ]_vars

C6_Witness ==
    /\ event = "submit"
    /\ feedback = "complete"
    /\ currentSignupStep = 0
    /\ Len(registeredUsers) = Len(InitialRegisteredUsers) + 1
    /\ registeredUsers[Len(registeredUsers)] =
           [email |-> MixedNewEmail, username |-> "x", password |-> "abc"]

(* C7: a submit that fails, because the passwords differ or because the    *)
(* email is registered (case-insensitively), leaves the directory and the  *)
(* active index unchanged.                                                 *)
C7_FailedSubmitNoChange ==
    [][ ( /\ event' = "submit"
          /\ \/ regPassword # regConfirmPassword
             \/ Registered(registeredUsers, regEmail) )
            => ( /\ registeredUsers' = registeredUsers
                 /\ currentSignupStep' = currentSignupStep
                 /\ feedback' \in {"mismatch", "duplicate"} ) ]_vars

C7_Witness ==
    /\ event = "submit"
    /\ feedback = "duplicate"
    /\ currentSignupStep = 0
    /\ Len(registeredUsers) = Len(InitialRegisteredUsers) + 1
    /\ registeredUsers[Len(registeredUsers)].email = NewEmail
    /\ regEmail = MixedNewEmail
    /\ regPassword = "abc"

(* C8: a prev click moves from index i > 0 to i - 1 whatever the fields    *)
(* and the directory hold, stays at 0 from index 0, and never changes the  *)
(* directory.                                                              *)
C8_RetreatUngated ==
    [][ event' = "prev"
            => ( /\ currentSignupStep' =
                       IF currentSignupStep > 0 THEN currentSignupStep - 1 ELSE 0
                 /\ registeredUsers' = registeredUsers ) ]_vars

C8_Witness ==
    /\ event = "prev"
    /\ currentSignupStep = 0
    /\ regEmail = SeedUserEmail
    /\ regPassword = EmptyString
    /\ Len(registeredUsers) > Len(InitialRegisteredUsers)

(* C9: a next click with all required fields of the current step filled    *)
(* and, at step 0, an unregistered email moves the index up by exactly 1   *)
(* when index + 1 is a step, leaves it unchanged on the last step, and     *)
(* never changes the directory.                                            *)
C9_AdvanceByOne ==
    [][ ( /\ event' = "next"
          /\ ~SomeRequiredEmpty(currentSignupStep)
          /\ (currentSignupStep = 0 => ~Registered(registeredUsers, regEmail)) )
            => ( /\ currentSignupStep' =
                       IF currentSignupStep + 1 < SignupStepCount
                       THEN currentSignupStep + 1 ELSE currentSignupStep
                 /\ registeredUsers' = registeredUsers ) ]_vars

C9_Witness ==
    /\ event = "next"
    /\ currentSignupStep = 1
    /\ queried = <<[email |-> NewEmail, result |-> FALSE]>>

(* C10: every call isEmailAlreadyRegistered(email) returns true exactly    *)
(* when some entry of the directory has the same email up to letter case,  *)
(* and a call by itself changes neither the directory nor the index.       *)
C10_QueryIsCaseInsensitiveMembership ==
    [][ /\ \A i \in 1..Len(queried') :
               queried'[i].result = Registered(registeredUsers, queried'[i].email)
        /\ event' = "call"
            => ( /\ Len(queried') = 1
                 /\ registeredUsers' = registeredUsers
                 /\ currentSignupStep' = currentSignupStep ) ]_vars

C10_Witness ==
    /\ event = "call"
    /\ Len(registeredUsers) > Len(InitialRegisteredUsers)
    /\ queried = <<[email |-> MixedNewEmail, result |-> TRUE]>>
    /\ \A i \in 1..Len(registeredUsers) : registeredUsers[i].email # MixedNewEmail

(* C11: the directory is append-only: in every step the old directory is a *)
(* prefix of the new one, it grows by at most one entry, only a successful *)
(* submit grows it, and next and prev clicks never change it.              *)
C11_DirectoryAppendOnly ==
    [][ /\ Len(registeredUsers') >= Len(registeredUsers)
        /\ Len(registeredUsers') <= Len(registeredUsers) + 1
        /\ \A i \in 1..Len(registeredUsers) : registeredUsers'[i] = registeredUsers[i]
        /\ registeredUsers' # registeredUsers
            => (event' = "submit" /\ feedback' = "complete")
        /\ event' \in {"next", "prev"} => registeredUsers' = registeredUsers ]_vars

C11_Witness ==
    /\ event = "submit"
    /\ feedback = "complete"
    /\ Len(registeredUsers) = Len(InitialRegisteredUsers) + 2
    /\ SubSeq(registeredUsers, 1, Len(InitialRegisteredUsers)) = InitialRegisteredUsers
    /\ registeredUsers[Len(InitialRegisteredUsers) + 1].email = NewEmail

(* C19: each form holds at most one submission-message element at any      *)
(* time, and every message that is displayed is eventually removed.        *)
C19_OneMessageEventuallyRemoved ==
    /\ [](\A f \in FormIds : Len(messages[f]) <= 1)
    /\ \A f \in FormIds : \A id \in 1..MaxMessages :
           (\E k \in 1..Len(messages[f]) : messages[f][k] = id)
               ~> (\A k \in 1..Len(messages[f]) : messages[f][k] # id)

C19_Witness ==
    /\ event = "submit"
    /\ feedback = "complete"
    /\ messages["signupForm"] = <<2>>
    /\ [form |-> "signupForm", id |-> 1] \in timers
    /\ [form |-> "signupForm", id |-> 2] \in timers

(* C12: the duplicate check and the push of a registration are atomic:     *)
(* once a submit handler has passed its checks, the next handler step is   *)
(* its own push (events may only be queued meanwhile), so the directory    *)
(* never holds two entries with case-insensitively equal emails, whatever  *)
(* submit, click and timer events are queued.                              *)
C12_CheckThenPushAtomic ==
    [][ /\ submitPc = "checked"
            => \/ /\ submitPc' = "idle"
                  /\ Len(registeredUsers') = Len(registeredUsers) + 1
                  /\ queried' = queried
                  /\ registeredUsers'[Len(registeredUsers')].email = queried[1].email
               \/ UNCHANGED <<signupVars, submitPc, messageVars>>
        /\ registeredUsers' # registeredUsers
            => \A i, j \in 1..Len(registeredUsers') :
                   i # j => ToLowerCase(registeredUsers'[i].email)
                                # ToLowerCase(registeredUsers'[j].email) ]_vars

C12_Witness ==
    /\ submitPc = "checked"
    /\ queried = <<[email |-> MixedNewEmail, result |-> FALSE]>>
    /\ Len(taskQueue) = 2
    /\ taskQueue[1].kind = "submit"
    /\ taskQueue[2].kind = "timer"
    /\ Len(registeredUsers) > Len(InitialRegisteredUsers)

(* The index after n prev clicks in a row, starting from cur.              *)
RECURSIVE RetreatTimes(_, _)
RetreatTimes(cur, n) ==
    IF n = 0 THEN cur ELSE RetreatTimes(NavigateSignupStep(cur, -1), n - 1)

(* C13: the wizard is never stuck: from every reachable state prev clicks  *)
(* bring the index to 0 (each prev click from i > 0 lowers it, and         *)
(* steps - 1 of them reach 0), and from step 0 a next click with filled    *)
(* fields and an unregistered email moves to step 1.                       *)
C13_NeverStuck ==
    /\ [](RetreatTimes(currentSignupStep, SignupStepCount - 1) = 0)
    /\ [][ /\ (event' = "prev" /\ currentSignupStep > 0)
               => currentSignupStep' = RetreatTimes(currentSignupStep, 1)
           /\ ( /\ event' = "next"
                /\ currentSignupStep = 0
                /\ ~SomeRequiredEmpty(0)
                /\ ~Registered(registeredUsers, regEmail) )
               => currentSignupStep' = 1 ]_vars

C13_Witness ==
    /\ event = "next"
    /\ feedback = "none"
    /\ currentSignupStep = 1
    /\ Len(registeredUsers) > Len(InitialRegisteredUsers)
    /\ queried = <<[email |-> NewEmail, result |-> FALSE]>>

(* C14: every identity that a submit appended to the directory has a       *)
(* non-empty email, username and password.                                 *)
C14_RegisteredIdentitiesComplete ==
    \A i \in (Len(InitialRegisteredUsers) + 1)..Len(registeredUsers) :
        /\ registeredUsers[i].email # EmptyEmail
        /\ registeredUsers[i].username # EmptyString
        /\ registeredUsers[i].password # EmptyString

(* C15: the reset of the active index is idempotent: after a successful    *)
(* submit the index is 0 from any starting index, and resetting again      *)
(* leaves it 0.                                                            *)
C15_ResetIdempotent ==
    [][ (event' = "submit" /\ feedback' = "complete")
            => ( /\ currentSignupStep' = 0
                 /\ ResetSignupStep(currentSignupStep') = 0
                 /\ \A i \in 0..(SignupStepCount - 1) :
                        ResetSignupStep(ResetSignupStep(i)) = ResetSignupStep(i) ) ]_vars

C15_Witness ==
    /\ event = "submit"
    /\ feedback = "complete"
    /\ currentSignupStep = 0
    /\ Len(registeredUsers) = Len(InitialRegisteredUsers) + 2
    /\ registeredUsers[Len(registeredUsers)].email = EmptyEmail

(* C16: the submit checks run in a fixed order: differing passwords give   *)
(* the mismatch outcome even when the email is registered, and the         *)
(* duplicate outcome is given exactly when the passwords are equal and the *)
(* email is registered.                                                    *)
C16_SubmitCheckOrder ==
    [][ event' = "submit"
            => ( /\ regPassword # regConfirmPassword => feedback' = "mismatch"
                 /\ feedback' = "duplicate"
                        <=> ( /\ regPassword = regConfirmPassword
                              /\ Registered(registeredUsers, regEmail) ) ) ]_vars

C16_Witness ==
    /\ event = "submit"
    /\ feedback = "mismatch"
    /\ regEmail = UpperUserEmail
    /\ regPassword = "abc"
    /\ regConfirmPassword = "xyz"
    /\ queried = << >>

(* C17 as claimed: whenever a submit appends an identity, the active index *)
(* at that moment is the last step.                                        *)
C17_CommitOnlyFromLastStep ==
    [][ Len(registeredUsers') > Len(registeredUsers)
            => currentSignupStep = SignupStepCount - 1 ]_vars

(* C17: only a submit appends an identity, and it does so whenever the     *)
(* passwords are equal and the email is unregistered, on whichever step    *)
(* the wizard is: the handler does not consult the active index.           *)
C17_CommitFromAnyStep ==
    [][ /\ Len(registeredUsers') > Len(registeredUsers) => event' = "submit"
        /\ \A step \in 0..(SignupStepCount - 1) :
               ( /\ event' = "submit"
                 /\ currentSignupStep = step
                 /\ regPassword = regConfirmPassword
                 /\ ~Registered(registeredUsers, regEmail) )
                   => Len(registeredUsers') = Len(registeredUsers) + 1 ]_vars

C17_Witness ==
    /\ event = "submit"
    /\ feedback = "complete"
    /\ Len(registeredUsers) = Len(InitialRegisteredUsers) + 2
    /\ registeredUsers[Len(InitialRegisteredUsers) + 1].email = NewEmail
    /\ registeredUsers[Len(InitialRegisteredUsers) + 2].email = EmptyEmail
    /\ registeredUsers[Len(InitialRegisteredUsers) + 2].username = "x"

(* C18: the appointment wizard is the same step machine as the signup      *)
(* wizard without the duplicate check.  With equal step counts, whenever   *)
(* the next/prev clicks made so far on the two forms are one common        *)
(* sequence (every click on one form has its counterpart on the other:     *)
(* the same direction, made with the same emptiness of the required inputs *)
(* of the active step, and no signup next click was made with a registered *)
(* email entered), currentAppointmentStep equals currentSignupStep.  And   *)
(* currentAppointmentStep always stays within 0..steps-1.                  *)
C18_AppointmentMatchesSignup ==
    /\ currentAppointmentStep >= 0
    /\ currentAppointmentStep < AppointmentStepCount
    /\ lockstep = Even => currentAppointmentStep = currentSignupStep

C18_Witness ==
    /\ lockstep = Even
    /\ event = "apnext"
    /\ feedback = "alert"
    /\ currentAppointmentStep = 1
    /\ currentSignupStep = 1
    /\ regEmail = NewEmail
    /\ regUsername = "x"
    /\ regPassword = EmptyString
    /\ apptInputs[0] = <<"v">>
    /\ apptInputs[1] = <<EmptyString>>

====
